---- MODULE Spec2Model ----
(***************************************************************************)
(* ULAB_FRBs.ipynb: the stored notebook document (15 cells) and its        *)
(* execution by the python3 kernel the document names in its kernelspec.   *)
(*                                                                         *)
(* A source line of a code cell is kept as its sequence of tokens; the     *)
(* text of a comment is one token after "#".  A markdown source line is    *)
(* kept as its inline elements: prose ("text"), an image ![alt](url), a    *)
(* link [text](url) or a bare URL.  A URL is kept as its list of segments  *)
(* between "/" characters, so "images/prism.jpeg" is <<"images",           *)
(* "prism.jpeg">> and "https://host/p" is <<"https:", "", "host", "p">>.   *)
(***************************************************************************)
EXTENDS Integers, Sequences, FiniteSets, TLC

VARIABLES
    execution_count,  \* code cell id -> the cell's execution_count in the open document
    outputs,          \* code cell id -> the cell's outputs list in the open document
    namespace,        \* the kernel's user namespace: the set of bound names
    counter,          \* the kernel's execution counter
    queue,            \* execute requests sent and not yet started, in order
    running,          \* the cells the kernel is executing
    reached,          \* history: the most import statements any execution completed
    runall,           \* "none", "active", "completed" or "stopped": the last Run All
    executed          \* the cells the current or last Run All has executed

vars == <<execution_count, outputs, namespace, counter, queue, running,
          reached, runall, executed>>

\* JSON null of an execution_count
Null == 0

\* the kernel stops accepting requests once its counter reaches MaxCount
MaxCount == 4

----------------------------------------------------------------------------
(* The stored document *)

\* a markdown cell written with the fields of a code cell
MarkdownCellWithCount(id, source) ==
    [cell_type |-> "markdown", execution_count |-> Null, id |-> id,
     metadata |-> <<>>, outputs |-> <<>>, source |-> source]

MarkdownCell(id, source) ==
    [cell_type |-> "markdown", id |-> id, metadata |-> <<>>, source |-> source]

\* a code cell that loses its stored execution count
CodeCellNoCount(id, count, source) ==
    [cell_type |-> "code", execution_count |-> Null, id |-> id,
     metadata |-> <<>>, outputs |-> <<>>, source |-> source]

CodeCell(id, count, source) ==
    [cell_type |-> "code", execution_count |-> count, id |-> id,
     metadata |-> <<>>, outputs |-> <<>>, source |-> source]

Text == [kind |-> "text"]
Image(alt, url) == [kind |-> "image", alt |-> alt, url |-> url]
Link(url) == [kind |-> "link", url |-> url]

Comment(text) == <<"#", text>>
Blank == <<>>

composed_starter ==
    << Comment("these are useful packages to import for astronomy (typical syntax)"),
       <<"import", "astropy.units", "as", "u">>,
       <<"import", "astropy.constants", "as", "c">>,
       Blank,
       Comment("these are typical packages used in jupyter notebooks"),
       <<"import", "numpy", "as", "np">>,
       <<"import", "matplotlib.pyplot", "as", "plt">>,
       <<"from", "tqdm", "import", "tqdm">>,
       Blank,
       Comment("these are useful packages for science/engineering in general"),
       <<"from", "scipy", "import", "signal">>,
       <<"from", "scipy", "import", "integrate">>,
       <<"from", "scipy", "import", "fftpack">>,
       <<"from", "scipy", "import", "optimize">>,
       <<"from", "scipy", "import", "ndimage">>,
       Blank,
       Comment("this is the package for plasma-related physics (it uses astropy)"),
       <<"from", "plasmapy", "import", "dispersion">>,
       <<"from", "plasmapy", "import", "formulary">>,
       <<"from", "plasmapy", "import", "simulation">>,
       Blank,
       Comment("to get interactive plots uncomment the magic line below"),
       Comment("%matplotlib notebook") >>

protective_shopping ==
    << Comment("types of radation mechanisms"), Blank,
       Comment("thermal blackbody and scattering"), Blank,
       Comment("synchrontron and gyro radiation"), Blank,
       Comment("free-free braking emission"), Blank,
       Comment("molecular lines (masers)"), Blank,
       Comment("atomic lines (lasers)"), Blank,
       Comment("recombination radiation (HII regions)") >>

ideal_holly == << Comment("ariawazhere") >>

bfa91d73 ==
    << Comment("basic plasma"), Blank,
       Comment("plasma parameter space"), Blank,
       Comment("Debye length (Debye-Huckle potential)"), Blank,
       Comment("dispersion relations (types of waves)"),
       <<"Different", "plane", "waves", "have", "different", "propogation",
         "velocities">> >>

instant_constitutional ==
    << Comment("single dish and interferometry (angular resolution)"), Blank,
       Comment("fourier transforms for interferometry and spectrometry"), Blank,
       Comment("FRB-specific telescopes and 21cm surveys") >>

mighty_logistics ==
    << Comment("general relativity"), Blank,
       Comment("dispersion relations"), Blank,
       Comment("intergalactic medium") >>

competent_timeline == << <<Text>>, <<Text>> >>

democratic_liver ==
    << <<Text>>, <<>>, <<Text>>, <<>>, <<Text>>, <<>>, <<Text>>, <<>>, <<Text>>,
       <<>>, <<Text>>, <<>>,
       << Image("prism", <<"images", "prism.jpeg">>) >>,
       <<>>,
       << Image("cenA", <<"images", "cenA.png">>) >> >>

signed_minneapolis ==
    << << Text,
          Link(<<"https:", "", "www.cyberphysics.co.uk", "topics", "light",
                 "dispersion.htm">>),
          Text,
          Link(<<"https:", "", "www.sofia.usra.edu", "publications",
                 "science-results-archive", "warped-magnetic-field-centaurus">>),
          Text >>,
       <<>>, <<>>, <<Text>>, <<>>, <<Text>>, <<>>, <<Text>>, <<>>, <<Text>>, <<>>,
       <<Text>>, <<>>,
       << Image("", <<"images", "sun_spectrum.png">>) >>,
       <<>>,
       << Text,
          Link(<<"https:", "", "physics.stackexchange.com", "questions", "130209",
                 "how-can-it-be-that-the-sun-emits-more-than-a-black-body">>),
          Text >>,
       <<>>, <<Text>>, <<>>, <<Text>>, <<>>, <<Text>>, <<>>, <<Text>>, <<>>,
       <<Text>>, <<>>, <<Text>>, <<>>, <<Text>>, <<>>, <<>>,
       << Image("", <<"images", "spectrums.jpg">>) >> >>

mysterious_booth ==
    << << Text,
          Link(<<"https:", "", "en.wikipedia.org", "wiki", "Inverse-square_law">>),
          Text >>,
       <<>>, <<Text>>, <<>>, <<Text>>, <<>>, <<Text>>, <<>>, <<Text>>, <<>>,
       <<Text>> >>

shared_priest == << <<Text>>, <<Text>>, <<Text>>, <<>>, <<Text>> >>

binary_colony == << <<Text>> >>

better_opinion ==
    << <<Text>>, <<>>,
       << Image("pcloud", <<"images", "plasma-cloud-diagram.jpg">>) >>,
       <<>>,
       << Text,
          Link(<<"https:", "", "skyandtelescope.org", "astronomy-news",
                 "twinkling-quasar-hints-at-mysterious-nearby-plasma-cloud", "">>),
          Text >> >>

german_posting == << <<Text>> >>

forward_elite == << <<Text>> >>

cells ==
    << MarkdownCell("competent-timeline", competent_timeline),
       CodeCell("composed-starter", 1, composed_starter),
       MarkdownCell("democratic-liver", democratic_liver),
       MarkdownCell("signed-minneapolis", signed_minneapolis),
       CodeCell("protective-shopping", Null, protective_shopping),
       MarkdownCell("mysterious-booth", mysterious_booth),
       MarkdownCell("shared-priest", shared_priest),
       CodeCell("ideal-holly", 1, ideal_holly),
       MarkdownCell("binary-colony", binary_colony),
       CodeCell("bfa91d73", 2, bfa91d73),
       MarkdownCell("better-opinion", better_opinion),
       MarkdownCell("german-posting", german_posting),
       CodeCell("instant-constitutional", 1, instant_constitutional),
       MarkdownCell("forward-elite", forward_elite),
       CodeCell("mighty-logistics", Null, mighty_logistics) >>

----------------------------------------------------------------------------
(* Reading the document *)

Indices == 1..Len(cells)

CodeIndices == {i \in Indices : cells[i].cell_type = "code"}

\* the ids of the code cells, in document order
CodeCellIds ==
    LET code == SelectSeq(cells, LAMBDA cell : cell.cell_type = "code")
    IN  [i \in 1..Len(code) |-> code[i].id]

CodeIds == {CodeCellIds[i] : i \in 1..Len(CodeCellIds)}

CellOf(id) == cells[CHOOSE i \in Indices : cells[i].id = id]

\* what a source line of a code cell is: blank, a comment, an import, or other
LineKind(line) ==
    IF line = <<>> THEN "blank"
    ELSE IF line[1] = "#" THEN "comment"
    ELSE IF line[1] = "import" /\ Len(line) \in {2, 4} THEN "import"
    ELSE IF line[1] = "from" /\ Len(line) = 4 /\ line[3] = "import" THEN "import"
    ELSE "other"

\* the lines of a code cell that are statements
Statements(source) ==
    SelectSeq(source, LAMBDA line : LineKind(line) \notin {"blank", "comment"})

ImportLines(source) ==
    SelectSeq(source, LAMBDA line : LineKind(line) = "import")

\* the name an import statement binds: "import m as n" and "from m import n"
\* bind n, "import m" binds m
BoundName(line) == line[Len(line)]

\* the names a cell's import statements bind, in source order
ImportedNames(source) ==
    LET imports == ImportLines(source)
    IN  [i \in 1..Len(imports) |-> BoundName(imports[i])]

\* the images a markdown cell embeds and the hyperlinks it carries
Elements(source, kind) ==
    {e \in UNION {{line[j] : j \in 1..Len(line)} : line \in {source[i] : i \in 1..Len(source)}} :
        e.kind = kind}

\* every URL of the cell taken for an image, hyperlinks included
AllRefs(cell) == Elements(cell.source, "image") \cup Elements(cell.source, "link")

ImageRefs(cell) == Elements(cell.source, "image")

LinkRefs(cell) == Elements(cell.source, "link")

\* a URL with a scheme (its first segment ends the scheme: "https:") is remote,
\* one starting with "/" (an empty first segment) is absolute
Schemes == {"http:", "https:", "ftp:", "file:", "data:"}

IsRelativePath(url) == Len(url) >= 1 /\ url[1] # "" /\ url[1] \notin Schemes

----------------------------------------------------------------------------
(* Python: compiling and executing the source of a cell *)

\* a statement that is not an import compiles when it is a name (an expression
\* statement) or "name = name" (an assignment); anything else is a syntax error
Compiles(line) ==
    \/ LineKind(line) = "import"
    \/ Len(line) = 1
    \/ Len(line) = 3 /\ line[2] = "="

\* Executes the statements stmts[k..] in the namespace ns.  fail is the number
\* of the import statement whose module cannot be imported (0: none), nimp the
\* number of import statements already executed.
\* an execution that goes on after a failed import, with the statements that follow
RECURSIVE ExecFromSkip(_, _, _, _, _)
ExecFromSkip(stmts, k, ns, nimp, fail) ==
    IF k > Len(stmts)
    THEN [error |-> IF fail \in 1..nimp THEN "ModuleNotFoundError" ELSE "",
          ns |-> ns, done |-> nimp]
    ELSE LET line == stmts[k] IN
         IF LineKind(line) = "import" THEN
              IF nimp + 1 = fail
              THEN ExecFromSkip(stmts, k + 1, ns, nimp + 1, fail)
              ELSE ExecFromSkip(stmts, k + 1, ns \cup {BoundName(line)}, nimp + 1, fail)
         ELSE IF line[Len(line)] \notin ns
              THEN [error |-> "NameError", ns |-> ns, done |-> nimp]
              ELSE ExecFromSkip(stmts, k + 1, ns \cup {line[1]}, nimp, fail)

RECURSIVE ExecFrom(_, _, _, _, _)
ExecFrom(stmts, k, ns, nimp, fail) ==
    IF k > Len(stmts) THEN [error |-> "", ns |-> ns, done |-> nimp]
    ELSE LET line == stmts[k] IN
         IF LineKind(line) = "import" THEN
              IF nimp + 1 = fail
              THEN [error |-> "ModuleNotFoundError", ns |-> ns, done |-> nimp]
              ELSE ExecFrom(stmts, k + 1, ns \cup {BoundName(line)}, nimp + 1, fail)
         ELSE IF line[Len(line)] \notin ns
              THEN [error |-> "NameError", ns |-> ns, done |-> nimp]
              ELSE ExecFrom(stmts, k + 1, ns \cup {line[1]}, nimp, fail)

\* an execution of each cell in a namespace of its own
ExecCellFresh(source, ns, fail) ==
    LET stmts == Statements(source) IN
    IF \E k \in 1..Len(stmts) : ~Compiles(stmts[k])
    THEN [error |-> "SyntaxError", ns |-> {}, done |-> 0]
    ELSE ExecFrom(stmts, 1, {}, 0, fail)

\* The kernel compiles the whole cell before it executes any of it.
ExecCell(source, ns, fail) ==
    LET stmts == Statements(source) IN
    IF \E k \in 1..Len(stmts) : ~Compiles(stmts[k])
    THEN [error |-> "SyntaxError", ns |-> ns, done |-> 0]
    ELSE ExecFrom(stmts, 1, ns, 0, fail)

----------------------------------------------------------------------------
(* The open document and its kernel *)

Init ==
    /\ execution_count = [id \in CodeIds |-> CellOf(id).execution_count]
    /\ outputs = [id \in CodeIds |-> CellOf(id).outputs]
    /\ namespace = {}
    /\ counter = 0
    /\ queue = <<>>
    /\ running = {}
    /\ reached = 0
    /\ runall = "none"
    /\ executed = {}

\* the user runs one code cell
Run(id) ==
    /\ queue = <<>> /\ running = {}
    /\ counter < MaxCount
    /\ queue' = <<id>>
    /\ runall' = "none"
    /\ executed' = {}
    /\ UNCHANGED <<execution_count, outputs, namespace, counter, running, reached>>

\* the user runs all cells: the code cells are requested in document order
RunAll ==
    /\ queue = <<>> /\ running = {}
    /\ counter < MaxCount
    /\ queue' = CodeCellIds
    /\ runall' = "active"
    /\ executed' = {}
    /\ UNCHANGED <<execution_count, outputs, namespace, counter, running, reached>>

\* a kernel that takes a request while it executes another
KernelAlwaysIdle == TRUE

\* the kernel takes the next request when it is idle
KernelIdle == running = {}

Start ==
    /\ queue # <<>>
    /\ KernelIdle
    /\ counter < MaxCount
    /\ running' = running \cup {Head(queue)}
    /\ queue' = Tail(queue)
    /\ UNCHANGED <<execution_count, outputs, namespace, counter, reached, runall, executed>>

\* the kernel finishes executing a cell; an error aborts the requests that wait
Finish(id, fail) ==
    /\ id \in running
    /\ LET r == ExecCell(CellOf(id).source, namespace, fail) IN
        /\ namespace' = r.ns
        /\ counter' = counter + 1
        /\ execution_count' = [execution_count EXCEPT ![id] = counter + 1]
        /\ outputs' = [outputs EXCEPT ![id] =
                          IF r.error = "" THEN <<>>
                          ELSE <<[output_type |-> "error", ename |-> r.error]>>]
        /\ running' = running \ {id}
        /\ queue' = IF r.error = "" THEN queue ELSE <<>>
        /\ reached' = IF r.done > reached THEN r.done ELSE reached
        /\ executed' = IF runall = "active" THEN executed \cup {id} ELSE executed
        /\ runall' = IF runall # "active" THEN runall
                     ELSE IF r.error # "" THEN "stopped"
                     ELSE IF queue = <<>> THEN "completed"
                     ELSE "active"

Next ==
    \/ \E id \in CodeIds : Run(id)
    \/ RunAll
    \/ Start
    \/ \E id \in CodeIds :
          \E fail \in 0..Len(ImportLines(CellOf(id).source)) : Finish(id, fail)

Spec == Init /\ [][Next]_vars

----------------------------------------------------------------------------
(* Properties *)

ImportCell == "composed-starter"

PlaceholderCells ==
    {"protective-shopping", "ideal-holly", "bfa91d73", "instant-constitutional",
     "mighty-logistics"}

Lines(source) == {source[i] : i \in 1..Len(source)}

Tokens(line) == {line[j] : j \in 1..Len(line)}

TheNames ==
    <<"u", "c", "np", "plt", "tqdm", "signal", "integrate", "fftpack", "optimize",
      "ndimage", "dispersion", "formulary", "simulation">>

NamePrefix(k) == {TheNames[i] : i \in 1..k}

\* the document as it was stored: the kernel has executed nothing yet
AsStored == counter = 0 /\ running = {} /\ queue = <<>>

\* C1: every source line of every code cell is an import statement, a comment
\* line starting with '#', or a blank line.
C1_OnlyImportsCommentsBlanks ==
    \A id \in DOMAIN execution_count : \A line \in Lines(CellOf(id).source) :
        LineKind(line) \in {"import", "comment", "blank"}

\* C2: the only cell whose execution can end in an error is the import cell:
\* none of the other five code cells ever carries an error output.
C2_OnlyImportCellErrors ==
    \A id \in CodeIds \ {ImportCell} :
        \A k \in 1..Len(outputs[id]) : outputs[id][k].output_type # "error"

\* C3, the part about the source: exactly one code cell, composed-starter, holds
\* import statements; they bind the 13 names; no statement of a code cell other
\* than an import mentions one of the names or defines a function, class or variable.
C3_SourceFacts ==
    /\ {cells[i].id : i \in {j \in CodeIndices : ImportLines(cells[j].source) # <<>>}}
          = {ImportCell}
    /\ ImportedNames(CellOf(ImportCell).source) = TheNames
    /\ Cardinality(NamePrefix(Len(TheNames))) = 13
    /\ \A i \in CodeIndices :
          LET stmts == Statements(cells[i].source) IN
          \A k \in 1..Len(stmts) :
              LineKind(stmts[k]) # "import" =>
                  Tokens(stmts[k]) \cap (NamePrefix(Len(TheNames)) \cup {"def", "class", "="}) = {}

\* C3 as stated: the source facts hold and in every reachable state the kernel
\* namespace is empty or exactly the 13 imported names.
C3_NamespaceEmptyOrAll ==
    /\ C3_SourceFacts
    /\ namespace \in {{}, NamePrefix(Len(TheNames))}

\* C3 as amended: the source facts hold and in every reachable state the kernel
\* namespace is the names of the first k import statements for some k in 0..13
\* (a failing import leaves the names bound before it).
C3_NamespaceIsPrefix ==
    /\ C3_SourceFacts
    /\ \E k \in 0..Len(TheNames) : namespace = NamePrefix(k)

\* an import failed part of the way: some but not all names are bound
C3_Witness ==
    /\ Cardinality(namespace) = 5
    /\ outputs[ImportCell] # <<>>
    /\ execution_count[ImportCell] = counter

\* C4: the notebook is a sequence of 15 cells, each of type markdown or code,
\* with pairwise distinct ids; the code cells, and only they, carry the
\* execution_count and outputs fields, in the stored document and while it is
\* open and its cells execute.
C4_DocumentFormat ==
    /\ Len(cells) = 15
    /\ DOMAIN execution_count = {cells[i].id : i \in CodeIndices}
    /\ DOMAIN outputs = {cells[i].id : i \in CodeIndices}
    /\ \A i \in Indices : cells[i].cell_type \in {"markdown", "code"}
    /\ \A i, j \in Indices : cells[i].id = cells[j].id => i = j
    /\ \A i \in Indices :
          /\ cells[i].cell_type = "code" =>
                {"execution_count", "outputs"} \subseteq DOMAIN cells[i]
          /\ cells[i].cell_type # "code" =>
                {"execution_count", "outputs"} \cap DOMAIN cells[i] = {}

\* the open document, with its nine markdown and six code cells, after a cell
\* has been executed
C4_Witness ==
    /\ counter = 1 /\ running = {}
    /\ \E id \in CodeIds : execution_count[id] = counter /\ outputs[id] # <<>>
    /\ Cardinality(CodeIndices) = 6
    /\ Cardinality(Indices \ CodeIndices) = 9
    /\ DOMAIN execution_count = CodeIds

\* C5: every image a markdown cell embeds is one of the five files, named by a
\* relative path under images/ (never an absolute path or a remote URL), and
\* the outputs list of every code cell of the stored document is empty; when
\* cells execute, no code cell ever gets an output other than the error that
\* ended it (nothing is printed, displayed or returned).
C5_OnlyStaticImages ==
    /\ \A i \in Indices \ CodeIndices : \A img \in ImageRefs(cells[i]) :
          /\ IsRelativePath(img.url)
          /\ Len(img.url) = 2
          /\ img.url[1] = "images"
    /\ UNION {{img.url[Len(img.url)] : img \in ImageRefs(cells[i])} : i \in Indices \ CodeIndices}
          = {"prism.jpeg", "cenA.png", "sun_spectrum.png", "spectrums.jpg",
             "plasma-cloud-diagram.jpg"}
    /\ \A i \in CodeIndices : cells[i].outputs = <<>>
    /\ AsStored => \A id \in CodeIds : outputs[id] = <<>>
    /\ \A id \in CodeIds :
          /\ Len(outputs[id]) <= 1
          /\ \A k \in 1..Len(outputs[id]) : outputs[id][k].output_type = "error"

\* the import cell and a placeholder cell have been executed without an error
\* and show no output; the document embeds images and also carries remote links
C5_Witness ==
    /\ counter = 2
    /\ execution_count[ImportCell] = 1 /\ outputs[ImportCell] = <<>>
    /\ execution_count["protective-shopping"] = 2 /\ outputs["protective-shopping"] = <<>>
    /\ \E i \in Indices \ CodeIndices :
          /\ ImageRefs(cells[i]) # {}
          /\ \E l \in LinkRefs(cells[i]) : ~IsRelativePath(l.url)

\* C6 as stated: in the document as stored every placeholder cell has a null
\* execution_count and an empty outputs list.
C6_PlaceholdersUnexecuted ==
    AsStored =>
        \A id \in PlaceholderCells :
            execution_count[id] = Null /\ outputs[id] = <<>>

\* C6 as amended: in the document as stored every placeholder cell has an empty
\* outputs list; protective-shopping and mighty-logistics have a null
\* execution_count, ideal-holly, bfa91d73 and instant-constitutional carry the
\* execution counts 1, 2 and 1.
C6_PlaceholdersStored ==
    AsStored =>
        /\ \A id \in PlaceholderCells : outputs[id] = <<>>
        /\ execution_count["protective-shopping"] = Null
        /\ execution_count["mighty-logistics"] = Null
        /\ execution_count["ideal-holly"] = 1
        /\ execution_count["bfa91d73"] = 2
        /\ execution_count["instant-constitutional"] = 1

\* the document as stored, holding executed and unexecuted placeholder cells
C6_Witness ==
    /\ AsStored
    /\ \E id \in PlaceholderCells : execution_count[id] # Null
    /\ \E id \in PlaceholderCells : execution_count[id] = Null
    /\ runall = "none"

AtMostOneExecuting == Cardinality(running) <= 1

\* C7 as stated: at most one cell is executing in any state, and in the
\* document as stored the non-null execution counts of the code cells increase
\* strictly in document order.
C7_CountsIncreaseInDocumentOrder ==
    /\ AtMostOneExecuting
    /\ AsStored =>
          \A i, j \in 1..Len(CodeCellIds) :
              (/\ i < j
               /\ execution_count[CodeCellIds[i]] # Null
               /\ execution_count[CodeCellIds[j]] # Null)
                  => execution_count[CodeCellIds[i]] < execution_count[CodeCellIds[j]]

\* C7 as amended: at most one cell is executing in any state; every non-null
\* execution count is at least 1; and counts follow the order of execution, not
\* the order of the document: a step that changes a cell's execution_count
\* gives it the kernel's previous count plus one, which becomes the kernel's count.
C7_CountsFollowExecutionOrder ==
    /\ [](AtMostOneExecuting /\ \A id \in CodeIds : execution_count[id] >= Null)
    /\ [][\A id \in CodeIds :
             execution_count'[id] # execution_count[id] =>
                 /\ execution_count'[id] = counter + 1
                 /\ counter' = counter + 1
                 /\ \A other \in CodeIds \ {id} :
                       execution_count'[other] = execution_count[other]]_vars

\* a cell executes while later requests wait, after two cells of the same run
\* finished; a cell late in the document carries a smaller count than an earlier one
C7_Witness ==
    /\ Cardinality(running) = 1
    /\ queue # <<>>
    /\ counter = 2
    /\ execution_count["instant-constitutional"] < execution_count["protective-shopping"]

\* the outcome of executing a cell that holds no import, in the namespace ns
OutcomeIn(id, ns) == ExecCell(CellOf(id).source, ns, 0).error

OutcomeIsFixed ==
    \A id \in CodeIds \ {ImportCell} :
        /\ OutcomeIn(id, namespace) = OutcomeIn(id, {})
        /\ \A k \in 1..Len(outputs[id]) : outputs[id][k].ename = OutcomeIn(id, {})

\* C8 as stated: the namespace depends only on whether the import cell has
\* succeeded at least once (all 13 names if it has, none if not), and the
\* outcome of executing a non-import cell is the same in every kernel state.
C8_NamespaceByImportSuccess ==
    /\ namespace = IF reached = Len(TheNames) THEN NamePrefix(Len(TheNames)) ELSE {}
    /\ OutcomeIsFixed

\* C8 as amended: the namespace depends only on the largest number of import
\* statements an execution of the import cell has completed (it is the names
\* those statements bind, whatever ran before or after, and however often), and
\* the outcome of executing a non-import cell is the same in every kernel state.
C8_NamespaceByImportProgress ==
    /\ namespace = NamePrefix(reached)
    /\ OutcomeIsFixed

\* the import cell failed part of the way and other cells ran after it, one
\* of them ending in an error
C8_Witness ==
    /\ reached \in 1..(Len(TheNames) - 1)
    /\ outputs[ImportCell] # <<>>
    /\ execution_count[ImportCell] = 1
    /\ execution_count["mighty-logistics"] = 2
    /\ execution_count["bfa91d73"] = 3
    /\ outputs["bfa91d73"] # <<>>
    /\ counter = 3

\* C9: a Run All ends after at most six cell executions, and when the imports
\* succeed it ends completed, with all six code cells executed, the last cell
\* mighty-logistics included.
C9_RunAllCompletes ==
    /\ Cardinality(executed) <= 6
    /\ (/\ runall \in {"completed", "stopped"}
        /\ ImportCell \in executed
        /\ outputs[ImportCell] = <<>>)
          => /\ runall = "completed"
             /\ executed = CodeIds
             /\ "mighty-logistics" \in executed

====
